---- MODULE Spec2Model ----
(***************************************************************************)
(* A model of decision-tree-induction: the induction engine and the tree   *)
(* model of decision_trees/tree.py, and the ARFF lexer and parser of        *)
(* decision_trees/parser.py.                                                *)
(*                                                                         *)
(* Python values are modelled as records tagged by "kind": a str is        *)
(* [kind |-> "str", value |-> s], a DecisionTree object is                  *)
(* [kind |-> "DecisionTree", attr, branches, is_leaf_node, value], and a    *)
(* call that ends in an exception yields [kind |-> "raise", value |-> E].   *)
(* A dict is the sequence of its [key, val] items in insertion order.       *)
(***************************************************************************)
EXTENDS Integers, Sequences, FiniteSets, TLC

VARIABLES
    examples,          \* the `examples` argument of the top-level call
    attributes,        \* the `attributes` argument (candidate attribute list)
    parent_examples,   \* the `parent_examples` argument
    importance_function, \* the selection policy passed in
    hashOrder,         \* iteration order of a set of str in this process
    pc,                \* position of the caller script
    tree,              \* value returned by decision_tree_learning
    query,             \* the example last handed to eval
    out,               \* outcome of that eval
    rendered           \* str(tree)

VARIABLES
    source,            \* what the input text was written from
    text,              \* the string s handed to Lexer.tokenize
    token_generator,   \* the suspended generator Lexer.tokenize(s)
    parser,            \* the Parser object and the locals of its methods
    ppc,               \* position inside Parser.parse
    parsed             \* outcome of Parser.parse()

treeVars == <<examples, attributes, parent_examples, importance_function,
              hashOrder, pc, tree, query, out, rendered>>
parseVars == <<source, text, token_generator, parser, ppc, parsed>>

VARIABLES
    score_call,        \* the arguments of a call of an entropy policy
    score_pc,          \* position of the caller of the policy
    score_out          \* the divisions the call made and what it ended in

scoreVars == <<score_call, score_pc, score_out>>
vars == <<treeVars, parseVars, scoreVars>>

----------------------------------------------------------------------------
(* Bounds and the finite universe the inputs are drawn from.               *)

MaxExamples == 3
MaxDecls == 2
MaxRows == 2
MaxRowLen == 3

Attrs == {"Patrons", "Hungry"}
Values == {"Some", "Full"}
Labels == {"Yes", "No"}
Policies == {"basic_importance", "entropy_importance"}

Keys == Attrs \cup {"classification"}

ExampleSet ==
    {e \in [Keys -> Values \cup Labels] :
        /\ e["classification"] \in Labels
        /\ \A a \in Attrs : e[a] \in Values}

ExampleLists == UNION {[1..n -> ExampleSet] : n \in 0..MaxExamples}

AttributeLists ==
    {<<>>} \cup {<<a>> : a \in Attrs}
           \cup {<<a, b>> : a \in Attrs, b \in Attrs}

HashOrders == {s \in [1..Cardinality(Values) -> Values] :
                  \A i, j \in DOMAIN s : i # j => s[i] # s[j]}

Queries == [Attrs -> Values] \cup {<<>>}

None == "<None>"
NoValue == [kind |-> "none"]

----------------------------------------------------------------------------
(* Python values.                                                          *)

Str(s) == [kind |-> "str", value |-> s]
Raise(e) == [kind |-> "raise", value |-> e]
Return(v) == [kind |-> "return", value |-> v]

\* dict: items in insertion order
DictKeys(d) == {d[i].key : i \in DOMAIN d}
DictGet(d, k) == d[CHOOSE i \in DOMAIN d : d[i].key = k].val
DictSet(d, k, v) ==
    IF k \in DictKeys(d)
    THEN [i \in DOMAIN d |-> IF d[i].key = k THEN [key |-> k, val |-> v] ELSE d[i]]
    ELSE Append(d, [key |-> k, val |-> v])

\* iteration over every str of the hash order, in the set or not
SetIterAll(S) == hashOrder
\* iteration over a set of str: the process's hash order
SetIter(S) == SelectSeq(hashOrder, LAMBDA v : v \in S)

----------------------------------------------------------------------------
(* tree.py: helpers.                                                       *)

\* every value of the universe instead of the values the examples carry
get_attribute_values_all(attr, exs) == Values
get_attribute_values(attr, exs) == {exs[i][attr] : i \in DOMAIN exs}

\* Counter(iterable): counts keyed in first-occurrence order
RECURSIVE Counter(_)
Counter(seq) ==
    IF seq = <<>> THEN <<>>
    ELSE LET c == Counter(SubSeq(seq, 1, Len(seq) - 1))
             x == seq[Len(seq)]
         IN  IF x \in DictKeys(c) THEN DictSet(c, x, DictGet(c, x) + 1)
             ELSE DictSet(c, x, 1)

\* max(items, key=count): the first item with the largest count
RECURSIVE MaxByCount(_, _, _)
MaxByCountLast(items, i, best) ==
    IF i > Len(items) THEN best
    ELSE MaxByCount(items, i + 1,
                    IF items[i].val >= items[best].val THEN i ELSE best)
MaxByCount(items, i, best) ==
    IF i > Len(items) THEN best
    ELSE MaxByCount(items, i + 1,
                    IF items[i].val > items[best].val THEN i ELSE best)

plurality_value(exs) ==
    LET c == Counter([i \in DOMAIN exs |-> exs[i]["classification"]])
    IN  IF c = <<>> THEN Raise("IndexError")
        ELSE Str(c[MaxByCount(c, 1, 1)].key)

\* the loop returning after its first comparison
examples_have_same_classification_first(exs) ==
    IF Len(exs) <= 1 THEN TRUE
    ELSE exs[2]["classification"] = exs[1]["classification"]
examples_have_same_classification(exs) ==
    IF Len(exs) = 1 THEN TRUE
    ELSE \A i \in 2..Len(exs) :
            exs[i]["classification"] = exs[1]["classification"]

----------------------------------------------------------------------------
(* tree.py: attribute selection policies.  A score is the rational         *)
(* num/den; LessThan and the equality of scores compare the rationals.     *)

Score(n, d) == [num |-> n, den |-> d]
LessThan(s, t) == s.num * t.den < t.num * s.den
SameScore(s, t) == s.num * t.den = t.num * s.den

basic_importance(attr, exs) == Score(1, 1)

RECURSIVE Pow(_, _)
Pow(b, e) == IF e = 0 THEN 1 ELSE b * Pow(b, e - 1)

CountClass(exs, c) ==
    Cardinality({i \in DOMAIN exs : exs[i]["classification"] = c})

(* entropy_importance returns B(p/(p+n)) - remainder.  The engine only     *)
(* compares the scores of the candidates of one call, which share the      *)
(* examples, hence B(p/(p+n)) and p+n; with tk = pk+nk,                     *)
(*   (p+n) * remainder = log2( PROD tk^tk / PROD pk^pk * nk^nk ),           *)
(* so the gain is ordered as the rational PROD pk^pk*nk^nk / PROD tk^tk    *)
(* (0^0 = 1, as B(0) = B(1) = 0), which is the score returned here.         *)
RECURSIVE Remainder(_, _, _)
Remainder(attr, exs, ds) ==
    IF ds = <<>> THEN Score(1, 1)
    ELSE LET subset == SelectSeq(exs, LAMBDA e : e[attr] = Head(ds))
             pk == CountClass(subset, "Yes")
             nk == CountClass(subset, "No")
             rest == Remainder(attr, exs, Tail(ds))
         IN  Score(rest.num * Pow(pk, pk) * Pow(nk, nk),
                   rest.den * Pow(pk + nk, pk + nk))

entropy_importance(attr, exs) ==
    Remainder(attr, exs, SetIter(get_attribute_values(attr, exs)))

Importance(f, attr, exs) ==
    IF f = "basic_importance" THEN basic_importance(attr, exs)
    ELSE entropy_importance(attr, exs)

\* max(imp): the first of the largest elements
RECURSIVE MaxScore(_, _, _)
MaxScore(imp, i, best) ==
    IF i > Len(imp) THEN imp[best]
    ELSE MaxScore(imp, i + 1, IF LessThan(imp[best], imp[i]) THEN i ELSE best)

\* imp.index(m): the first position holding a value equal to m
IndexLast(imp, m) ==
    CHOOSE i \in DOMAIN imp :
        SameScore(imp[i], m) /\ \A j \in DOMAIN imp : SameScore(imp[j], m) => j <= i
Index(imp, m) ==
    CHOOSE i \in DOMAIN imp :
        SameScore(imp[i], m) /\ \A j \in 1..(i - 1) : ~SameScore(imp[j], m)

----------------------------------------------------------------------------
(* tree.py: the divisions the entropy policies perform.  A division is     *)
(* written [by, divisor]: `by` names what the code divides by, `divisor`   *)
(* is its value; Python raises ZeroDivisionError at the first division     *)
(* whose divisor is 0 and performs none after it.                          *)

Division(by, n) == [by |-> by, divisor |-> n]

\* subset = [e for e in examples if e[attr] == d], taken the other way round
SubsetOthers(exs, attr, d) == SelectSeq(exs, LAMBDA e : e[attr] # d)
\* subset = [e for e in examples if e[attr] == d]
Subset(exs, attr, d) == SelectSeq(exs, LAMBDA e : e[attr] = d)

\* the divisions up to and with the first one by zero
Performed(divs) ==
    IF \E i \in DOMAIN divs : divs[i].divisor = 0
    THEN SubSeq(divs, 1, CHOOSE i \in DOMAIN divs :
                            /\ divs[i].divisor = 0
                            /\ \A j \in 1..(i - 1) : divs[j].divisor # 0)
    ELSE divs

\* what a computation with these divisions and this value ends in
Outcome(divs, value) ==
    [divisions |-> Performed(divs),
     result |-> IF \E i \in DOMAIN divs : divs[i].divisor = 0
                THEN Raise("ZeroDivisionError") ELSE Return(value)]

\* entropy_importance, the loop body for each d of ds in turn:
\* (pk + nk) / (p + n) * B(pk / (pk + nk))
RECURSIVE EntropyLoopDivisions(_, _, _)
EntropyLoopDivisions(attr, exs, ds) ==
    IF ds = <<>> THEN <<>>
    ELSE LET subset == Subset(exs, attr, Head(ds))
             pk == CountClass(subset, "Yes")
             nk == CountClass(subset, "No")
         IN  <<Division("overall", CountClass(exs, "Yes") + CountClass(exs, "No")),
               Division("subset", pk + nk)>>
             \o EntropyLoopDivisions(attr, exs, Tail(ds))

\* entropy_importance(attr, examples) with its divisions: the loop, then
\* B(p / (p + n))
entropy_importance_call(attr, exs) ==
    Outcome(EntropyLoopDivisions(attr, exs, SetIter(get_attribute_values(attr, exs)))
              \o <<Division("overall",
                            CountClass(exs, "Yes") + CountClass(exs, "No"))>>,
            entropy_importance(attr, exs))

\* sum(outcomes): the examples of exs whose classification is in classes,
\* counted once per entry of classes
RECURSIVE SumOutcomes(_, _)
SumOutcomes(exs, classes) ==
    IF classes = <<>> THEN 0
    ELSE CountClass(exs, Head(classes)) + SumOutcomes(exs, Tail(classes))

\* generalised_B(q, b) for q = count / total, with the division count / total
\* made before the call: 0 when q is 0 or 1, else -q * log(q, b), and
\* math.log(q, b) divides by log(b), which is 0 when b is 1 (the divisor is
\* written 0 then and b otherwise)
GeneralisedBDivisions(count, total, by, b) ==
    <<Division(by, total)>>
    \o (IF total = 0 \/ count = 0 \/ count = total THEN <<>>
        ELSE <<Division("log base", IF b = 1 THEN 0 ELSE b)>>)

\* total_entropy: generalised_B(p / len(examples), b) for p in outcomes
RECURSIVE TotalEntropyDivisions(_, _, _)
TotalEntropyDivisions(exs, cs, b) ==
    IF cs = <<>> THEN <<>>
    ELSE GeneralisedBDivisions(CountClass(exs, Head(cs)), Len(exs), "len(examples)", b)
         \o TotalEntropyDivisions(exs, Tail(cs), b)

\* sum(outcomes_k) / sum(outcomes) * generalised_B(pk / sum(outcomes_k), b)
\* for pk in outcomes_k
RECURSIVE SubsetDivisions(_, _, _, _)
SubsetDivisions(exs, subset, cs, classes) ==
    IF cs = <<>> THEN <<>>
    ELSE <<Division("overall", SumOutcomes(exs, classes))>>
         \o GeneralisedBDivisions(CountClass(subset, Head(cs)),
                                  SumOutcomes(subset, classes), "subset",
                                  Len(classes))
         \o SubsetDivisions(exs, subset, Tail(cs), classes)

\* generalised_entropy_importance, the loop body for each d of ds in turn
RECURSIVE GeneralisedLoopDivisions(_, _, _, _)
GeneralisedLoopDivisions(attr, exs, classes, ds) ==
    IF ds = <<>> THEN <<>>
    ELSE SubsetDivisions(exs, Subset(exs, attr, Head(ds)), classes, classes)
         \o GeneralisedLoopDivisions(attr, exs, classes, Tail(ds))

\* the score of generalised_entropy_importance, ordered as the gain is: with
\* nkc the count of class c in the subset of value k and tk their sum over
\* the classes, the rational PROD nkc^nkc / PROD tk^tk
RECURSIVE ClassPowers(_, _)
ClassPowers(subset, cs) ==
    IF cs = <<>> THEN 1
    ELSE Pow(CountClass(subset, Head(cs)), CountClass(subset, Head(cs)))
         * ClassPowers(subset, Tail(cs))

RECURSIVE GeneralisedRemainder(_, _, _, _)
GeneralisedRemainder(attr, exs, classes, ds) ==
    IF ds = <<>> THEN Score(1, 1)
    ELSE LET subset == Subset(exs, attr, Head(ds))
             tk == SumOutcomes(subset, classes)
             rest == GeneralisedRemainder(attr, exs, classes, Tail(ds))
         IN  Score(rest.num * ClassPowers(subset, classes),
                   rest.den * Pow(tk, tk))

generalised_entropy_importance(attr, exs, classes) ==
    GeneralisedRemainder(attr, exs, classes,
                         SetIter(get_attribute_values(attr, exs)))

\* generalised_entropy_importance(attr, examples, classes) with its divisions
generalised_entropy_importance_call(attr, exs, classes) ==
    Outcome(TotalEntropyDivisions(exs, classes, Len(classes))
              \o GeneralisedLoopDivisions(attr, exs, classes,
                                          SetIter(get_attribute_values(attr, exs))),
            generalised_entropy_importance(attr, exs, classes))

----------------------------------------------------------------------------
(* tree.py: class DecisionTree.                                            *)

DecisionTree(attr) ==
    [kind |-> "DecisionTree", attr |-> attr, branches |-> <<>>,
     is_leaf_node |-> FALSE, value |-> None]

\* the dummy branch without `is_leaf_node = True`
LeafNodeUnmarked(v) ==
    [kind |-> "DecisionTree", attr |-> "Leaf", branches |-> <<>>,
     is_leaf_node |-> FALSE, value |-> v]

LeafNode(v) ==
    [kind |-> "DecisionTree", attr |-> "Leaf", branches |-> <<>>,
     is_leaf_node |-> TRUE, value |-> v]

add_branch(self, vk, subtree) ==
    IF subtree.kind = "DecisionTree"
    THEN [self EXCEPT !.branches = DictSet(self.branches, vk, subtree)]
    ELSE [self EXCEPT !.branches = DictSet(self.branches, vk, LeafNode(subtree.value))]

RECURSIVE EvalLoop(_, _)
\* the loop without its try/except: the KeyError escapes
EvalLoopNoCatch(t, example) ==
    IF t.is_leaf_node THEN Return(t.value)
    ELSE IF t.attr \notin DOMAIN example THEN Raise("KeyError")
    ELSE IF example[t.attr] \notin DictKeys(t.branches) THEN Raise("KeyError")
    ELSE EvalLoop(DictGet(t.branches, example[t.attr]), example)
EvalLoop(t, example) ==
    IF t.is_leaf_node THEN Return(t.value)
    ELSE IF t.attr \notin DOMAIN example THEN Raise("KeyError")
    ELSE IF example[t.attr] \notin DictKeys(t.branches) THEN Raise("ValueError")
    ELSE EvalLoop(DictGet(t.branches, example[t.attr]), example)

\* t.eval(example); a str has no attribute eval
eval(t, example) ==
    IF t.kind # "DecisionTree" THEN Raise("AttributeError")
    ELSE EvalLoop(t, example)

\* DecisionTree.__str__: one line per (attribute, value) pair, the subtree's
\* lines below it, each indented by two more spaces
RECURSIVE DecisionTree_str(_)
RECURSIVE StrBranches(_, _)
StrBranches(t, items) ==
    IF items = <<>> THEN <<>>
    ELSE LET sub == DecisionTree_str(Head(items).val)
         IN  <<[indent |-> 0, text |-> <<t.attr, "==", Head(items).key>>]>>
             \o [i \in DOMAIN sub |-> [sub[i] EXCEPT !.indent = @ + 2]]
             \o StrBranches(t, Tail(items))
DecisionTree_str(self) ==
    IF self.is_leaf_node
    THEN <<[indent |-> 0, text |-> <<"Leaf node returns", self.value>>]>>
    ELSE StrBranches(self, self.branches)

\* str(x): of a DecisionTree its __str__, of a str the str itself
str(x) ==
    IF x.kind = "DecisionTree" THEN DecisionTree_str(x)
    ELSE <<[indent |-> 0, text |-> <<x.value>>]>>

----------------------------------------------------------------------------
(* tree.py: the induction engine.                                          *)

ChosenAttribute(exs, attrs, f) ==
    LET imp == [i \in DOMAIN attrs |-> Importance(f, attrs[i], exs)]
    IN  attrs[Index(imp, MaxScore(imp, 1, 1))]

\* exs = [e for e in examples if e.get(A) == vk]
SubExamplesOther(exs, A, vk) == SelectSeq(exs, LAMBDA e : e[A] # vk)
SubExamples(exs, A, vk) == SelectSeq(exs, LAMBDA e : e[A] = vk)

\* att = [a for a in attributes if a != A]
SubAttributesTail(attrs, A) == Tail(attrs)
\* as attributes.remove(A) would: only the first occurrence of A goes
SubAttributesRemoveOnce(attrs, A) ==
    LET k == CHOOSE i \in DOMAIN attrs :
                 attrs[i] = A /\ \A j \in 1..(i - 1) : attrs[j] # A
    IN  SubSeq(attrs, 1, k - 1) \o SubSeq(attrs, k + 1, Len(attrs))
SubAttributes(attrs, A) == SelectSeq(attrs, LAMBDA a : a # A)

RECURSIVE decision_tree_learning(_, _, _, _)
RECURSIVE Branches(_, _, _, _, _, _)
\* the loop `for vk in get_attribute_values(A, examples)`: vks are the values
\* still to visit, t the tree built so far
Branches(t, vks, A, exs, attrs, f) ==
    IF vks = <<>> THEN t
    ELSE LET vk == Head(vks)
             subtree == decision_tree_learning(SubExamples(exs, A, vk),
                                               SubAttributes(attrs, A), exs, f)
         IN  IF subtree.kind = "raise" THEN subtree
             ELSE Branches(add_branch(t, vk, subtree), Tail(vks), A, exs, attrs, f)

\* the terminal cases tested in another order: `not attributes` first
decision_tree_learning_attributes_first(exs, attrs, parents, f) ==
    IF attrs = <<>> THEN plurality_value(exs)
    ELSE IF exs = <<>> THEN plurality_value(parents)
    ELSE IF examples_have_same_classification(exs)
         THEN Str(exs[1]["classification"])
    ELSE LET A == ChosenAttribute(exs, attrs, f)
         IN  Branches(DecisionTree(A), SetIter(get_attribute_values(A, exs)),
                      A, exs, attrs, f)

decision_tree_learning(exs, attrs, parents, f) ==
    IF exs = <<>> THEN plurality_value(parents)
    ELSE IF examples_have_same_classification(exs)
         THEN Str(exs[1]["classification"])
    ELSE IF attrs = <<>> THEN plurality_value(exs)
    ELSE LET A == ChosenAttribute(exs, attrs, f)
         IN  Branches(DecisionTree(A), SetIter(get_attribute_values(A, exs)),
                      A, exs, attrs, f)

----------------------------------------------------------------------------
(* parser.py: class Lexer.  A string is the sequence of its characters;    *)
(* offsets are 0-based as in the code, so the character at offset p of s   *)
(* is s[p + 1].                                                            *)

LowerCase == <<"a", "b", "c", "d", "e", "f", "g", "h", "i", "j", "k", "l", "m",
               "n", "o", "p", "q", "r", "s", "t", "u", "v", "w", "x", "y", "z">>
UpperCase == <<"A", "B", "C", "D", "E", "F", "G", "H", "I", "J", "K", "L", "M",
               "N", "O", "P", "Q", "R", "S", "T", "U", "V", "W", "X", "Y", "Z">>
Digits == {"0", "1", "2", "3", "4", "5", "6", "7", "8", "9"}

\* re.IGNORECASE
Fold(c) ==
    IF \E i \in DOMAIN UpperCase : UpperCase[i] = c
    THEN LowerCase[CHOOSE i \in DOMAIN UpperCase : UpperCase[i] = c]
    ELSE c

\* [\w$<>=]
WordChar(c) ==
    \/ \E i \in DOMAIN LowerCase : LowerCase[i] = Fold(c)
    \/ c \in Digits \cup {"_", "$", "<", ">", "="}

NoMatch == -1

\* a literal, matched ignoring case: the offset after it, or NoMatch
Literal(lit, s, p) ==
    IF /\ p + Len(lit) <= Len(s)
       /\ \A i \in DOMAIN lit : Fold(s[p + i]) = Fold(lit[i])
    THEN p + Len(lit) ELSE NoMatch

IsDigit(c) == c \in Digits
NotNewline(c) == c # "\n"

\* the character classes the patterns repeat: \d, '.', [\w$<>=]
InClass(class, c) ==
    CASE class = "\\d" -> IsDigit(c)
      [] class = "." -> NotNewline(c)
      [] class = "[\\w$<>=]" -> WordChar(c)

\* the offset after the longest run of characters of the class from offset p
RECURSIVE RunEnd(_, _, _)
RunEnd(class, s, p) ==
    IF p < Len(s) /\ InClass(class, s[p + 1]) THEN RunEnd(class, s, p + 1) ELSE p

\* (?:[-]?[\w$<>=]+)* after a run of word characters that ends at offset q
RECURSIVE StringTail(_, _)
StringTail(s, q) ==
    IF q + 1 < Len(s) /\ s[q + 1] = "-" /\ WordChar(s[q + 2])
    THEN StringTail(s, RunEnd("[\\w$<>=]", s, q + 1))
    ELSE q

\* the patterns of token_specification: the offset after the match of the
\* pattern named typ at offset p of s, or NoMatch
Match(typ, s, p) ==
    CASE typ = "COMMENT" ->
            IF p < Len(s) /\ s[p + 1] = "%" THEN RunEnd(".", s, p + 1)
            ELSE NoMatch
      [] typ = "RELATION_DECL" ->
            Literal(<<"@", "r", "e", "l", "a", "t", "i", "o", "n">>, s, p)
      [] typ = "STRING" ->
            IF p < Len(s) /\ WordChar(s[p + 1])
            THEN StringTail(s, RunEnd("[\\w$<>=]", s, p)) ELSE NoMatch
      [] typ = "ATTR_DECL" ->
            Literal(<<"@", "a", "t", "t", "r", "i", "b", "u", "t", "e">>, s, p)
      [] typ = "NUM_DATATYPE" ->
            IF Literal(<<"n", "u", "m", "e", "r", "i", "c">>, s, p) # NoMatch
            THEN Literal(<<"n", "u", "m", "e", "r", "i", "c">>, s, p)
            ELSE IF Literal(<<"i", "n", "t", "e", "g", "e", "r">>, s, p) # NoMatch
            THEN Literal(<<"i", "n", "t", "e", "g", "e", "r">>, s, p)
            ELSE Literal(<<"r", "e", "a", "l">>, s, p)
      [] typ = "LEFT_CURLY" -> Literal(<<"{">>, s, p)
      [] typ = "RIGHT_CURLY" -> Literal(<<"}">>, s, p)
      [] typ = "COMMA" -> Literal(<<",">>, s, p)
      [] typ = "DATA_DECL" -> Literal(<<"@", "d", "a", "t", "a">>, s, p)
      [] typ = "MISSING_DECL" -> Literal(<<"?">>, s, p)
      [] typ = "NUMBER" ->
            IF p < Len(s) /\ IsDigit(s[p + 1])
            THEN LET q == RunEnd("\\d", s, p)
                 IN  IF q + 1 < Len(s) /\ s[q + 1] = "." /\ IsDigit(s[q + 2])
                     THEN RunEnd("\\d", s, q + 1) ELSE q
            ELSE NoMatch
      [] typ = "NEWLINE" -> Literal(<<"\n">>, s, p)
      [] typ = "SKIP" ->
            IF p < Len(s) /\ s[p + 1] \in {" ", "\t"} THEN p + 1 ELSE NoMatch

\* the alternatives of tok_regex, in the order they are tried
token_specification ==
    <<"COMMENT", "RELATION_DECL", "STRING", "ATTR_DECL", "NUM_DATATYPE",
      "LEFT_CURLY", "RIGHT_CURLY", "COMMA", "DATA_DECL", "MISSING_DECL",
      "NUMBER", "NEWLINE", "SKIP">>

keywords ==
    {<<"I", "F">>, <<"T", "H", "E", "N">>, <<"E", "N", "D", "I", "F">>,
     <<"N", "E", "X", "T">>, <<"G", "O", "S", "U", "B">>,
     <<"R", "E", "T", "U", "R", "N">>}

NoMatchObject == [typ |-> "None", start |-> 0, end |-> 0]

\* the first alternative, in the order of the list, that matches: ends[i] is
\* where alternative i ends when tried at offset p
FirstMatch(ends, p) ==
    IF \E i \in DOMAIN ends : ends[i] # NoMatch
    THEN LET i == CHOOSE i \in DOMAIN ends :
                     ends[i] # NoMatch /\ \A j \in 1..(i - 1) : ends[j] = NoMatch
         IN  [typ |-> token_specification[i], start |-> p, end |-> ends[i]]
    ELSE NoMatchObject

\* get_token(s, pos): the match object of tok_regex at pos, or None
get_token(s, p) ==
    FirstMatch([i \in DOMAIN token_specification |->
                   Match(token_specification[i], s, p)], p)

Token(typ, value, line, column) ==
    [typ |-> typ, value |-> value, line |-> line, column |-> column]

NoToken == [typ |-> "None", value |-> <<>>, line |-> 0, column |-> 0]

\* the generator object of Lexer.tokenize(s) before its first next()
tokenize(s) ==
    [s |-> s, state |-> "suspended", line |-> 1, pos |-> 0, line_start |-> 0]

\* the token yielded for the match mo; a STRING that is one of the keywords
\* gets its own text as typ, written "KEYWORD" here
Yielded(g, mo, val) ==
    Token(IF mo.typ = "STRING" /\ val \in keywords THEN "KEYWORD" ELSE mo.typ,
          val, g.line, mo.start - g.line_start)

(* next(g): runs the generator g from where it is suspended to its next    *)
(* yield, to its end (StopIteration) or to the RuntimeError it raises.     *)
(* Gives [outcome, token, generator]; g.pos is the offset the loop goes on *)
(* from (mo.end() of the token yielded last).  Loop(g, mo) is one turn of  *)
(* `while mo is not None` and what follows the loop.                       *)
RECURSIVE Loop(_, _)
Loop(g, mo) ==
    IF mo = NoMatchObject
    THEN [outcome |-> IF g.pos # Len(g.s) THEN "RuntimeError" ELSE "StopIteration",
          token |-> NoToken, generator |-> [g EXCEPT !.state = "finished"]]
    ELSE IF mo.typ = "NEWLINE"
    THEN Loop([g EXCEPT !.line_start = g.pos, !.line = g.line + 1, !.pos = mo.end],
              get_token(g.s, mo.end))
    ELSE IF mo.typ \in {"SKIP", "COMMENT"}
    THEN Loop([g EXCEPT !.pos = mo.end], get_token(g.s, mo.end))
    ELSE [outcome |-> "yield",
          token |-> Yielded(g, mo, SubSeq(g.s, mo.start + 1, mo.end)),
          generator |-> [g EXCEPT !.pos = mo.end]]

next(g) ==
    IF g.state # "suspended"
    THEN [outcome |-> "StopIteration", token |-> NoToken, generator |-> g]
    ELSE Loop(g, get_token(g.s, g.pos))

----------------------------------------------------------------------------
(* parser.py: class Parser.                                                *)

\* Parser(token_generator)
NewParser ==
    [current_token |-> NoToken, rel |-> <<>>, attributes |-> <<>>,
     attr_name |-> <<>>, nominal_values |-> <<>>, examples |-> <<>>,
     example |-> <<>>, attr_iter |-> 0]

expect(p, token_type) ==
    IF p.current_token = NoToken THEN FALSE
    ELSE p.current_token.typ = token_type

(* accept(token_type), with the next_token() it calls: raise is "" or the  *)
(* exception that ends the call, token the token returned, current and     *)
(* generator the current token and the generator after the call; n is      *)
(* what next(self.token_generator) gives if it is called.                  *)
AcceptNext(p, g, token_type, n) ==
    IF p.current_token = NoToken \/ p.current_token.typ # token_type
    THEN [raise |-> "RuntimeError: Cannot accept", token |-> NoToken,
          current |-> p.current_token, generator |-> g]
    ELSE IF n.outcome = "RuntimeError"
    THEN [raise |-> "RuntimeError: Unexpected character", token |-> NoToken,
          current |-> p.current_token, generator |-> n.generator]
    ELSE [raise |-> "", token |-> p.current_token,
          current |-> n.token, generator |-> n.generator]

accept(p, g, token_type) == AcceptNext(p, g, token_type, next(g))

\* self.accept(first) and, when that returns, self.accept(second)
AcceptSecond(a, p, second) ==
    IF a.raise # "" THEN a
    ELSE accept([p EXCEPT !.current_token = a.current], a.generator, second)

AcceptBoth(p, g, first, second) ==
    AcceptSecond(accept(p, g, first), p, second)

\* an exception leaves Parser.parse
Raises(e, g) ==
    /\ parsed' = Raise(e)
    /\ ppc' = "done"
    /\ token_generator' = g
    /\ UNCHANGED parser

(* What follows the accept call(s) whose outcome is a: the exception       *)
(* leaves parse, or next(attr_iter) finds the iterator exhausted, or the   *)
(* parser goes on at `to` with the fields set from the accepted token.     *)
Continue(a, exhausted, to, updated) ==
    IF a.raise # "" THEN Raises(a.raise, a.generator)
    ELSE IF exhausted THEN Raises("StopIteration", a.generator)
    ELSE /\ ppc' = to
         /\ token_generator' = a.generator
         /\ parser' = [updated EXCEPT !.current_token = a.current]
         /\ UNCHANGED parsed

\* the outcome of self.next_token(), which lets StopIteration pass as None
AsAccepted(n) ==
    [raise |-> IF n.outcome = "RuntimeError"
               THEN "RuntimeError: Unexpected character" ELSE "",
     token |-> NoToken, current |-> n.token, generator |-> n.generator]

\* parse(): self.next_token()
ParseBegin ==
    /\ ppc = "parse"
    /\ Continue(AsAccepted(next(token_generator)), FALSE, "relation", parser)
    /\ UNCHANGED <<treeVars, scoreVars, source, text>>

\* parse(): self.accept("RELATION_DECL")
AcceptRelation ==
    /\ ppc = "relation"
    /\ Continue(accept(parser, token_generator, "RELATION_DECL"), FALSE,
                "relation_name", parser)
    /\ UNCHANGED <<treeVars, scoreVars, source, text>>

\* parse(): rel = self.accept('STRING').value; attributes(): dict = OrderedDict()
AcceptRelationName ==
    /\ ppc = "relation_name"
    /\ LET a == accept(parser, token_generator, "STRING")
       IN  Continue(a, FALSE, "attributes",
                    [parser EXCEPT !.rel = a.token.value, !.attributes = <<>>])
    /\ UNCHANGED <<treeVars, scoreVars, source, text>>

\* attributes(): while self.expect('ATTR_DECL'): self.accept('ATTR_DECL')
AttributesLoop ==
    /\ ppc = "attributes"
    /\ IF expect(parser, "ATTR_DECL")
       THEN Continue(accept(parser, token_generator, "ATTR_DECL"), FALSE,
                     "attr_name", parser)
       ELSE /\ ppc' = "data_section"
            /\ UNCHANGED <<token_generator, parser, parsed>>
    /\ UNCHANGED <<treeVars, scoreVars, source, text>>

\* attributes(): attr_name = self.accept('STRING')
AttrName ==
    /\ ppc = "attr_name"
    /\ LET a == accept(parser, token_generator, "STRING")
       IN  Continue(a, FALSE, "attr_type",
                    [parser EXCEPT !.attr_name = a.token.value])
    /\ UNCHANGED <<treeVars, scoreVars, source, text>>

\* attributes(): the datatype; a numeric datatype is accepted and not stored
AttrType ==
    /\ ppc = "attr_type"
    /\ IF expect(parser, "NUM_DATATYPE")
       THEN Continue(accept(parser, token_generator, "NUM_DATATYPE"), FALSE,
                     "attributes", parser)
       ELSE IF expect(parser, "LEFT_CURLY")
       THEN Continue(accept(parser, token_generator, "LEFT_CURLY"), FALSE,
                     "nominal_values",
                     [parser EXCEPT !.nominal_values = <<>>])
       ELSE Raises("RuntimeError: Not implemented", token_generator)
    /\ UNCHANGED <<treeVars, scoreVars, source, text>>

\* nominal_values(): nom1 = self.accept('STRING')
NominalFirst ==
    /\ ppc = "nominal_values"
    /\ LET a == accept(parser, token_generator, "STRING")
       IN  Continue(a, FALSE, "nominal_loop",
                    [parser EXCEPT !.nominal_values = <<a.token.value>>])
    /\ UNCHANGED <<treeVars, scoreVars, source, text>>

\* nominal_values(): one turn of `while self.expect('COMMA')`, or after the
\* loop self.accept('RIGHT_CURLY') and, back in attributes(), the store
NominalLoop ==
    /\ ppc = "nominal_loop"
    /\ IF expect(parser, "COMMA")
       THEN LET a == AcceptBoth(parser, token_generator, "COMMA", "STRING")
            IN  Continue(a, FALSE, "nominal_loop",
                         [parser EXCEPT
                             !.nominal_values = Append(@, a.token.value)])
       ELSE Continue(accept(parser, token_generator, "RIGHT_CURLY"), FALSE,
                     "attributes",
                     [parser EXCEPT !.attributes =
                         DictSet(@, parser.attr_name, parser.nominal_values)])
    /\ UNCHANGED <<treeVars, scoreVars, source, text>>

\* parse(): if self.expect('DATA_DECL') ... else raise
DataSection ==
    /\ ppc = "data_section"
    /\ IF expect(parser, "DATA_DECL")
       THEN /\ ppc' = "data"
            /\ UNCHANGED <<token_generator, parser, parsed>>
       ELSE Raises("RuntimeError: No DATA section found!", token_generator)
    /\ UNCHANGED <<treeVars, scoreVars, source, text>>

\* data(): self.accept('DATA_DECL'); examples = []
DataBegin ==
    /\ ppc = "data"
    /\ Continue(accept(parser, token_generator, "DATA_DECL"), FALSE, "rows",
                [parser EXCEPT !.examples = <<>>])
    /\ UNCHANGED <<treeVars, scoreVars, source, text>>

\* Data(rel, self.attributes, data)
Data(relation, attrs, data) ==
    [kind |-> "Data", relation |-> relation, attributes |-> attrs,
     examples |-> data]

\* data(): `while self.expect('STRING')`: the first value of a row, or after
\* the loop the return of data() and of parse()
RowLoop ==
    /\ ppc = "rows"
    /\ IF expect(parser, "STRING")
       THEN LET a == accept(parser, token_generator, "STRING")
            IN  Continue(a, Len(parser.attributes) = 0, "values",
                         [parser EXCEPT
                             !.attr_iter = 1,
                             !.example = DictSet(<<>>, parser.attributes[1].key,
                                                 a.token.value)])
       ELSE /\ parsed' = Data(parser.rel, parser.attributes, parser.examples)
            /\ ppc' = "done"
            /\ UNCHANGED <<token_generator, parser>>
    /\ UNCHANGED <<treeVars, scoreVars, source, text>>

\* data(): one turn of `while self.expect('COMMA')`, or after the loop
\* examples.append(example)
ValueLoop ==
    /\ ppc = "values"
    /\ IF expect(parser, "COMMA")
       THEN LET a == AcceptBoth(parser, token_generator, "COMMA", "STRING")
            IN  Continue(a, parser.attr_iter >= Len(parser.attributes), "values",
                         [parser EXCEPT
                             !.attr_iter = @ + 1,
                             !.example =
                                 DictSet(@, parser.attributes[parser.attr_iter + 1].key,
                                         a.token.value)])
       ELSE /\ ppc' = "rows"
            /\ parser' = [parser EXCEPT !.examples = Append(@, parser.example)]
            /\ UNCHANGED <<token_generator, parsed>>
    /\ UNCHANGED <<treeVars, scoreVars, source, text>>

----------------------------------------------------------------------------
(* The input texts: a comment line, the relation, attribute declarations   *)
(* named a, b, ..., the data marker, rows of values, and what follows.     *)

DeclKinds == {"nominal1", "nominal2", "numeric"}
Tails == {<<>>, <<"?">>, <<"#">>, <<"?", "#">>}

Sources ==
    [decls : UNION {[1..n -> DeclKinds] : n \in 0..MaxDecls},
     has_data : BOOLEAN,
     rows : UNION {[1..n -> 1..MaxRowLen] : n \in 0..MaxRows},
     tail : Tails]

AttrNames == <<"a", "b", "c", "d">>

\* the domain an attribute declaration of kind k lists
DeclDomain(k) ==
    IF k = "nominal1" THEN <<<<"x">>>>
    ELSE IF k = "nominal2" THEN <<<<"x">>, <<"y">>>>
    ELSE <<>>

DeclText(i, k) ==
    <<"@", "a", "t", "t", "r", "i", "b", "u", "t", "e", " ", AttrNames[i], " ">>
    \o (IF k = "nominal1" THEN <<"{", "x", "}">>
        ELSE IF k = "nominal2" THEN <<"{", "x", ",", " ", "y", "}">>
        ELSE <<"n", "u", "m", "e", "r", "i", "c">>)
    \o <<"\n">>

RowValue(j) == IF j % 2 = 1 THEN "x" ELSE "y"

RECURSIVE RowText(_, _)
RowText(j, n) ==
    IF j > n THEN <<"\n">>
    ELSE (IF j > 1 THEN <<",">> ELSE <<>>) \o <<RowValue(j)>> \o RowText(j + 1, n)

RECURSIVE Concat(_)
Concat(pieces) ==
    IF pieces = <<>> THEN <<>> ELSE Head(pieces) \o Concat(Tail(pieces))

SourceText(src) ==
    <<"%", "c", "\n", "@", "r", "e", "l", "a", "t", "i", "o", "n", " ", "r", "\n">>
    \o Concat([i \in DOMAIN src.decls |-> DeclText(i, src.decls[i])])
    \o (IF src.has_data THEN <<"@", "d", "a", "t", "a", "\n">> ELSE <<>>)
    \o Concat([i \in DOMAIN src.rows |-> RowText(1, src.rows[i])])
    \o src.tail

----------------------------------------------------------------------------
(* The caller: builds a tree, then evaluates examples on it or prints it.  *)

TreeIdle ==
    /\ examples = <<>>
    /\ attributes = <<>>
    /\ parent_examples = <<>>
    /\ importance_function = "basic_importance"
    /\ hashOrder = <<>>
    /\ pc = "idle"
    /\ tree = NoValue
    /\ query = NoValue
    /\ out = NoValue
    /\ rendered = NoValue

ParseIdle ==
    /\ source = NoValue
    /\ text = <<>>
    /\ token_generator = NoValue
    /\ parser = NoValue
    /\ ppc = "idle"
    /\ parsed = NoValue

ScoreIdle ==
    /\ score_call = NoValue
    /\ score_pc = "idle"
    /\ score_out = NoValue

Init ==
    /\ examples \in ExampleLists
    /\ attributes \in AttributeLists
    /\ parent_examples \in (IF examples = <<>> THEN ExampleLists ELSE {examples})
    /\ importance_function \in Policies
    /\ hashOrder \in HashOrders
    /\ pc = "start"
    /\ tree = NoValue
    /\ query = NoValue
    /\ out = NoValue
    /\ rendered = NoValue
    /\ ParseIdle
    /\ ScoreIdle

Learn ==
    /\ pc = "start"
    /\ tree' = decision_tree_learning(examples, attributes, parent_examples,
                                      importance_function)
    /\ pc' = "learned"
    /\ UNCHANGED <<examples, attributes, parent_examples, importance_function,
                   hashOrder, query, out, rendered>>
    /\ UNCHANGED <<parseVars, scoreVars>>

Eval ==
    /\ pc = "learned"
    /\ tree.kind # "raise"
    /\ \E q \in Queries :
          /\ query' = q
          /\ out' = eval(tree, q)
    /\ pc' = "evaluated"
    /\ UNCHANGED <<examples, attributes, parent_examples, importance_function,
                   hashOrder, tree, rendered>>
    /\ UNCHANGED <<parseVars, scoreVars>>

Render ==
    /\ pc = "learned"
    /\ tree.kind # "raise"
    /\ rendered' = str(tree)
    /\ pc' = "rendered"
    /\ UNCHANGED <<examples, attributes, parent_examples, importance_function,
                   hashOrder, tree, query, out>>
    /\ UNCHANGED <<parseVars, scoreVars>>

Next == Learn \/ Eval \/ Render

Spec == Init /\ [][Next]_vars

\* parser.parse(file): Parser(Lexer.tokenize(s)).parse()
InitParse ==
    /\ source \in Sources
    /\ text = SourceText(source)
    /\ token_generator = tokenize(text)
    /\ parser = NewParser
    /\ ppc = "parse"
    /\ parsed = NoValue
    /\ TreeIdle
    /\ ScoreIdle

NextParse ==
    \/ ParseBegin
    \/ AcceptRelation
    \/ AcceptRelationName
    \/ AttributesLoop
    \/ AttrName
    \/ AttrType
    \/ NominalFirst
    \/ NominalLoop
    \/ DataSection
    \/ DataBegin
    \/ RowLoop
    \/ ValueLoop

SpecParse == InitParse /\ [][NextParse]_vars

\* a direct call of an entropy policy: the examples carry one attribute and
\* a classification, which need not be one the policy counts
ScoreLabels == Labels \cup {"Maybe"}
ScoreAttr == "Patrons"
ScoreExamples ==
    {e \in [{ScoreAttr, "classification"} -> Values \cup ScoreLabels] :
        e["classification"] \in ScoreLabels /\ e[ScoreAttr] \in Values}
ScoreExampleLists == UNION {[1..n -> ScoreExamples] : n \in 0..MaxExamples}
ClassLists == {<<>>, <<"Yes">>, <<"Yes", "No">>, <<"Yes", "No", "Maybe">>}

ScoreCalls ==
    [function : {"entropy_importance"}, attr : {ScoreAttr},
     examples : ScoreExampleLists, classes : {<<>>}]
    \cup [function : {"generalised_entropy_importance"}, attr : {ScoreAttr},
          examples : ScoreExampleLists, classes : ClassLists]

InitScore ==
    /\ score_call \in ScoreCalls
    /\ score_pc = "start"
    /\ score_out = NoValue
    /\ hashOrder \in HashOrders
    /\ examples = <<>>
    /\ attributes = <<>>
    /\ parent_examples = <<>>
    /\ importance_function = "basic_importance"
    /\ pc = "idle"
    /\ tree = NoValue
    /\ query = NoValue
    /\ out = NoValue
    /\ rendered = NoValue
    /\ ParseIdle

EntropyImportance ==
    /\ score_pc = "start"
    /\ score_call.function = "entropy_importance"
    /\ score_out' = entropy_importance_call(score_call.attr, score_call.examples)
    /\ score_pc' = "returned"
    /\ UNCHANGED <<score_call, treeVars, parseVars>>

GeneralisedEntropyImportance ==
    /\ score_pc = "start"
    /\ score_call.function = "generalised_entropy_importance"
    /\ score_out' = generalised_entropy_importance_call(
                        score_call.attr, score_call.examples, score_call.classes)
    /\ score_pc' = "returned"
    /\ UNCHANGED <<score_call, treeVars, parseVars>>

NextScore == EntropyImportance \/ GeneralisedEntropyImportance

SpecScore == InitScore /\ [][NextScore]_vars

----------------------------------------------------------------------------
(* Notions the properties are stated with.                                 *)

Range(seq) == {seq[i] : i \in DOMAIN seq}

Learned == pc \in {"learned", "evaluated", "rendered"}

\* the call has just returned; eval and str that follow leave the arguments
\* and the returned tree as they are
Returned == pc = "learned"

\* every example of exs carries the same classification
AllSame(exs) ==
    \A i, j \in DOMAIN exs : exs[i]["classification"] = exs[j]["classification"]

\* no two examples agree on every candidate attribute and differ in classification
Consistent(exs, attrs) ==
    \A i, j \in DOMAIN exs :
        (\A a \in Range(attrs) : exs[i][a] = exs[j][a])
            => exs[i]["classification"] = exs[j]["classification"]

\* the query is a training example without its classification
Trains(e, q) == DOMAIN q = Attrs /\ \A a \in Attrs : q[a] = e[a]

Occurrences(exs, l) ==
    Cardinality({i \in DOMAIN exs : exs[i]["classification"] = l})
FirstOccurrence(exs, l) ==
    CHOOSE i \in DOMAIN exs :
        /\ exs[i]["classification"] = l
        /\ \A j \in 1..(i - 1) : exs[j]["classification"] # l

\* l is a most frequent classification of exs, the earliest of those
IsPlurality(l, exs) ==
    /\ Occurrences(exs, l) > 0
    /\ \A m \in Labels : Occurrences(exs, m) <= Occurrences(exs, l)
    /\ \A m \in Labels :
          (m # l /\ Occurrences(exs, m) = Occurrences(exs, l))
              => FirstOccurrence(exs, l) < FirstOccurrence(exs, m)

IsSplit(t) == t.kind = "DecisionTree" /\ ~t.is_leaf_node

\* some branch of t leads to a split node
HasNestedSplit(t) ==
    IsSplit(t) /\ \E i \in DOMAIN t.branches : IsSplit(t.branches[i].val)

\* the orders the list attrs can be given in
Reorderings(attrs) ==
    {s \in [DOMAIN attrs -> Range(attrs)] :
        \A a \in Range(attrs) :
            Cardinality({i \in DOMAIN s : s[i] = a})
                = Cardinality({i \in DOMAIN attrs : attrs[i] = a})}

\* the candidates whose score no other candidate's score exceeds
Maximal(exs, attrs, f) ==
    {a \in Range(attrs) :
        \A b \in Range(attrs) :
            ~LessThan(Importance(f, a, exs), Importance(f, b, exs))}

\* in the call on (exs, attrs) and in every call below it that splits, one
\* candidate alone has the largest score
RECURSIVE UniqueMaximum(_, _, _)
UniqueMaximum(exs, attrs, f) ==
    IF exs = <<>> \/ AllSame(exs) \/ attrs = <<>> THEN TRUE
    ELSE /\ Cardinality(Maximal(exs, attrs, f)) = 1
         /\ LET A == CHOOSE a \in Maximal(exs, attrs, f) : TRUE
            IN  \A vk \in get_attribute_values(A, exs) :
                   UniqueMaximum(SelectSeq(exs, LAMBDA e : e[A] = vk),
                                 SelectSeq(attrs, LAMBDA a : a # A), f)

\* eval of q on t visits a node whose branches lack q's value for its attribute
RECURSIVE MeetsUnknownValue(_, _)
MeetsUnknownValue(t, q) ==
    /\ IsSplit(t)
    /\ t.attr \in DOMAIN q
    /\ \/ \A i \in DOMAIN t.branches : t.branches[i].key # q[t.attr]
       \/ \E i \in DOMAIN t.branches :
             /\ t.branches[i].key = q[t.attr]
             /\ MeetsUnknownValue(t.branches[i].val, q)

\* the first candidate, in list order, that has the largest score
FirstMaximal(exs, attrs, f) ==
    attrs[CHOOSE i \in DOMAIN attrs :
             /\ attrs[i] \in Maximal(exs, attrs, f)
             /\ \A j \in 1..(i - 1) : attrs[j] \notin Maximal(exs, attrs, f)]

\* every split node of t, built by the call on (exs, attrs), splits on the
\* first maximal candidate of the list that call was given
RECURSIVE SplitsOnFirstMaximal(_, _, _, _)
SplitsOnFirstMaximal(t, exs, attrs, f) ==
    IsSplit(t) =>
        /\ attrs # <<>>
        /\ t.attr = FirstMaximal(exs, attrs, f)
        /\ f = "basic_importance" => t.attr = attrs[1]
        /\ \A i \in DOMAIN t.branches :
              SplitsOnFirstMaximal(
                  t.branches[i].val,
                  SelectSeq(exs, LAMBDA e : e[t.attr] = t.branches[i].key),
                  SelectSeq(attrs, LAMBDA a : a # t.attr), f)

----------------------------------------------------------------------------
(* Properties of the induction engine and the tree model.                  *)

C2_Original ==
    pc = "rendered"
        => \A other \in Reorderings(attributes) :
              str(decision_tree_learning(examples, other, parent_examples,
                                         importance_function)) = rendered

\* C2 amended: the rendered text is the same for every order of the candidate
\* attributes provided that, in every call that splits, a single candidate has
\* the largest score (no tie for the stable argmax to break by list position).
C2_OrderInvariantWithoutTies ==
    (pc = "rendered"
     /\ UniqueMaximum(examples, attributes, importance_function))
        => \A other \in Reorderings(attributes) :
              str(decision_tree_learning(examples, other, parent_examples,
                                         importance_function)) = rendered

C2_Witness ==
    /\ pc = "rendered"
    /\ UniqueMaximum(examples, attributes, importance_function)
    /\ Cardinality(Range(attributes)) = 2
    /\ HasNestedSplit(tree)
    /\ tree.attr = attributes[2]

\* C3: eval on an example whose value for the split attribute of a visited node
\* has no matching branch ends in ValueError, and in nothing else.
C3_UnknownValueRaisesValueError ==
    (pc = "evaluated" /\ MeetsUnknownValue(tree, query))
        => out = Raise("ValueError")

C3_Witness ==
    /\ pc = "evaluated"
    /\ MeetsUnknownValue(tree, query)
    /\ \E i \in DOMAIN tree.branches : tree.branches[i].key = query[tree.attr]
    /\ out = Raise("ValueError")

\* C4: the terminal cases apply in the order: empty examples (plurality of the
\* parent examples), one shared classification (that classification), empty
\* candidate list (plurality of the current examples).
C4_TerminalCasesInOrder ==
    Returned =>
        /\ (examples = <<>> /\ parent_examples # <<>>)
              => tree = plurality_value(parent_examples)
        /\ (examples # <<>> /\ AllSame(examples))
              => tree = Str(examples[1]["classification"])
        /\ (examples # <<>> /\ ~AllSame(examples) /\ attributes = <<>>)
              => tree = plurality_value(examples)

C4_Witness ==
    /\ Learned
    /\ examples = <<>>
    /\ attributes = <<>>
    /\ ~AllSame(parent_examples)
    /\ tree = plurality_value(parent_examples)
    /\ tree.kind = "str"

C6_StableArgmax ==
    Returned =>
        SplitsOnFirstMaximal(tree, examples, attributes, importance_function)

C6_Witness ==
    /\ Learned
    /\ importance_function = "entropy_importance"
    /\ HasNestedSplit(tree)
    /\ Cardinality(Maximal(examples, attributes, importance_function)) = 2
    /\ tree.attr = attributes[1]

\* C7: plurality_value of a non-empty list is a classification of the largest
\* frequency, and among several of those the one that occurs first.
C7_PluralityValue ==
    Returned =>
        /\ (examples = <<>> /\ parent_examples # <<>>)
              => tree.kind = "str" /\ IsPlurality(tree.value, parent_examples)
        /\ (examples # <<>> /\ ~AllSame(examples) /\ attributes = <<>>)
              => tree.kind = "str" /\ IsPlurality(tree.value, examples)

C7_Witness ==
    /\ Learned
    /\ examples = <<>>
    /\ Len(parent_examples) = 2
    /\ ~AllSame(parent_examples)
    /\ tree = Str(parent_examples[1]["classification"])

\* what add_branch stores for the subtree r a recursive call returned
AsBranch(r) == IF r.kind = "DecisionTree" THEN r ELSE LeafNode(r.value)

\* every split node of t, built by the call on (exs, attrs): its branches are
\* keyed by the values its attribute takes in exs, each once, and the child
\* under v is what induction returns on the examples of exs carrying v, the
\* candidates without the attribute, and exs as parent
RECURSIVE BranchesPartition(_, _, _, _)
BranchesPartition(t, exs, attrs, f) ==
    IsSplit(t) =>
        /\ {t.branches[i].key : i \in DOMAIN t.branches}
              = {exs[i][t.attr] : i \in DOMAIN exs}
        /\ \A i, j \in DOMAIN t.branches :
              t.branches[i].key = t.branches[j].key => i = j
        /\ \A i \in DOMAIN t.branches :
              LET v == t.branches[i].key
                  sub == SelectSeq(exs, LAMBDA e : e[t.attr] = v)
                  att == SelectSeq(attrs, LAMBDA a : a # t.attr)
              IN  /\ sub # <<>>
                  /\ t.branches[i].val
                        = AsBranch(decision_tree_learning(sub, att, exs, f))
                  /\ BranchesPartition(t.branches[i].val, sub, att, f)

\* C11: every split node has exactly one branch per distinct value its
\* attribute takes among the current examples, and the child under a value is
\* the result of induction on the examples carrying that value, with the
\* attribute removed from the candidates and the current examples as parent.
C11_OneBranchPerObservedValue ==
    Returned =>
        BranchesPartition(tree, examples, attributes, importance_function)

C11_Witness ==
    /\ Learned
    /\ HasNestedSplit(tree)
    /\ Len(tree.branches) = 2
    /\ \E i \in DOMAIN tree.branches : tree.branches[i].val.is_leaf_node
    /\ Len(examples) = 3

\* a node that is a Leaf: marked so, holding a classification, no branches
IsLeafShape(t) ==
    /\ t.is_leaf_node
    /\ t.value \in Labels
    /\ t.branches = <<>>

\* a node that is a Split: not marked a leaf, holding no value, with branches
IsSplitShape(t) ==
    /\ ~t.is_leaf_node
    /\ t.value = None
    /\ t.branches # <<>>

\* t and every node below it is a Leaf or a Split, and not both
RECURSIVE LeafOrSplit(_)
LeafOrSplit(t) ==
    /\ t.kind = "DecisionTree"
    /\ IsLeafShape(t) \/ IsSplitShape(t)
    /\ ~(IsLeafShape(t) /\ IsSplitShape(t))
    /\ \A i \in DOMAIN t.branches : LeafOrSplit(t.branches[i].val)

\* C12: in every tree decision_tree_learning returns, each node reachable from
\* the root is exactly one of a Leaf (marked as leaf, carries a classification,
\* no branches) or a Split (not marked, carries no value, at least one branch).
C12_LeafOrSplit ==
    (Returned /\ tree.kind = "DecisionTree") => LeafOrSplit(tree)

C12_Witness ==
    /\ Learned
    /\ HasNestedSplit(tree)
    /\ importance_function = "basic_importance"
    /\ \E i \in DOMAIN tree.branches : IsLeafShape(tree.branches[i].val)
    /\ \E i \in DOMAIN tree.branches : IsSplitShape(tree.branches[i].val)
    /\ LeafOrSplit(tree)

\* no path from t to a leaf holds more than n split nodes
RECURSIVE SplitDepthAtMost(_, _)
SplitDepthAtMost(t, n) ==
    IsSplit(t) =>
        /\ n >= 1
        /\ \A i \in DOMAIN t.branches : SplitDepthAtMost(t.branches[i].val, n - 1)

\* in the call on (exs, attrs) and in every call below it, the candidate list
\* handed to the recursive calls is strictly shorter and lacks the attribute
\* just split on
RECURSIVE CandidatesShrink(_, _, _)
CandidatesShrink(exs, attrs, f) ==
    IF exs = <<>> \/ examples_have_same_classification(exs) \/ attrs = <<>>
    THEN TRUE
    ELSE LET A == ChosenAttribute(exs, attrs, f)
             att == SubAttributes(attrs, A)
         IN  /\ Len(att) < Len(attrs)
             /\ A \notin Range(att)
             /\ \A vk \in get_attribute_values(A, exs) :
                   CandidatesShrink(SubExamples(exs, A, vk), att, f)

\* the call has come to an end with r: a label, a tree, or the IndexError of
\* plurality_value on an empty parent list
Completes(r, exs, parents) ==
    \/ r.kind \in {"str", "DecisionTree"}
    \/ r = Raise("IndexError") /\ exs = <<>> /\ parents = <<>>

\* C13: decision_tree_learning returns on every input, no root-to-leaf path of
\* the result holds more split nodes than the top-level call had candidate
\* attributes, and every recursive call is given a strictly shorter candidate
\* list without the attribute just split on.
C13_DepthBoundedByCandidates ==
    Returned =>
        /\ Completes(tree, examples, parent_examples)
        /\ CandidatesShrink(examples, attributes, importance_function)
        /\ SplitDepthAtMost(tree, Len(attributes))

C13_Witness ==
    /\ Learned
    /\ Len(attributes) = 2
    /\ attributes[1] # attributes[2]
    /\ SplitDepthAtMost(tree, 2)
    /\ ~SplitDepthAtMost(tree, 1)

\* in the call on (exs, attrs) and in every call below it, each recursive
\* call is given examples, and returns the same with no parent examples to
\* fall back on
RECURSIVE ParentUnused(_, _, _)
ParentUnused(exs, attrs, f) ==
    IF exs = <<>> \/ examples_have_same_classification(exs) \/ attrs = <<>>
    THEN TRUE
    ELSE LET A == ChosenAttribute(exs, attrs, f)
             att == SubAttributes(attrs, A)
             vks == SetIter(get_attribute_values(A, exs))
         IN  \A k \in DOMAIN vks :
                LET sub == SubExamples(exs, A, vks[k])
                IN  /\ sub # <<>>
                    /\ decision_tree_learning(sub, att, exs, f)
                          = decision_tree_learning(sub, att, <<>>, f)
                    /\ ParentUnused(sub, att, f)

\* C16: every recursive call of decision_tree_learning is given a non-empty
\* example list, so only a top-level call with no examples falls back on the
\* parent's plurality classification, and the parent examples handed to the
\* recursive calls do not affect the tree.
C16_RecursiveCallsHaveExamples ==
    Returned =>
        /\ ParentUnused(examples, attributes, importance_function)
        /\ examples # <<>>
              => tree = decision_tree_learning(examples, attributes, <<>>,
                                               importance_function)

C16_Witness ==
    /\ Learned
    /\ HasNestedSplit(tree)
    /\ Len(tree.branches) = 1
    /\ tree = decision_tree_learning(examples, attributes, <<>>,
                                     importance_function)

----------------------------------------------------------------------------
(* Properties of the entropy policies.                                     *)

\* the classifications the called policy counts
Counted(call) ==
    IF call.function = "entropy_importance" THEN {"Yes", "No"}
    ELSE Range(call.classes)

\* every example of the call carries a classification the policy counts
AllCounted(call) ==
    \A i \in DOMAIN call.examples :
        call.examples[i]["classification"] \in Counted(call)

\* no division by a subset's total or by the overall count was by zero
NoZeroCount(o) ==
    \A i \in DOMAIN o.divisions :
        o.divisions[i].by \in {"subset", "overall", "len(examples)"}
            => o.divisions[i].divisor # 0

\* C14 as stated: called on a non-empty example list, the entropy policies
\* never divide by a subset's total count, or by the overall count, that is 0.
C14_Original ==
    (score_pc = "returned" /\ score_call.examples # <<>>)
        => NoZeroCount(score_out)

\* C14 amended: called on a non-empty example list whose classifications are
\* all among those the policy counts ("Yes" and "No" for entropy_importance,
\* the entries of `classes` for generalised_entropy_importance), the policies
\* never divide by a count that is 0, and no ZeroDivisionError is raised.
C14_NoZeroCountOnCountedLabels ==
    (score_pc = "returned" /\ score_call.examples # <<>> /\ AllCounted(score_call))
        => /\ NoZeroCount(score_out)
           /\ score_out.result.kind = "return"

C14_Witness ==
    /\ score_pc = "returned"
    /\ score_call.function = "generalised_entropy_importance"
    /\ Len(score_call.classes) = 3
    /\ Len(score_call.examples) = 3
    /\ AllCounted(score_call)
    /\ Cardinality({score_call.examples[i][ScoreAttr] :
                        i \in DOMAIN score_call.examples}) = 2
    /\ \E i \in DOMAIN score_out.divisions :
          score_out.divisions[i].by = "subset"
    /\ score_out.result.kind = "return"

----------------------------------------------------------------------------
(* Properties of the lexer and the parser.                                 *)

\* list(Lexer.tokenize(s)): how the generator ends when it is run to its end
RECURSIVE Drained(_)
DrainedFrom(n) ==
    IF n.outcome = "yield" THEN Drained(n.generator) ELSE n.outcome
Drained(g) == DrainedFrom(next(g))

\* the text is written as the grammar asks: the data marker is there, every
\* row has one value per declared attribute, and nothing follows the rows
WellFormed(src) ==
    /\ src.has_data
    /\ src.tail = <<>>
    /\ \A i \in DOMAIN src.rows : src.rows[i] = Len(src.decls)

\* C8 as stated: every example of a returned Dataset has as many key/value
\* pairs as there are attributes; a row with more or with fewer values ends
\* the parse in an error.
C8_Original ==
    (ppc = "done" /\ parsed.kind = "Data")
        => \A i \in DOMAIN parsed.examples :
              Len(parsed.examples[i]) = Len(parsed.attributes)

\* C9 as stated: every declared attribute, numeric or nominal, is recorded in
\* the Dataset's attribute mapping in encounter order, a nominal one with
\* its value list.
C9_Original ==
    (ppc = "done" /\ WellFormed(source))
        => /\ parsed.kind = "Data"
           /\ Len(parsed.attributes) = Len(source.decls)
           /\ \A i \in DOMAIN source.decls :
                 /\ parsed.attributes[i].key = <<AttrNames[i]>>
                 /\ source.decls[i] # "numeric"
                       => parsed.attributes[i].val = DeclDomain(source.decls[i])

\* C10 as stated: when the tokenizer run to completion raises the
\* unexpected-character error, Parser(Lexer.tokenize(text)).parse() does not
\* return a Dataset.
C10_Original ==
    (ppc = "done" /\ Drained(tokenize(text)) = "RuntimeError")
        => parsed.kind # "Data"

\* the offset at which the token the parser holds starts in the text: the
\* generator is suspended right after it
TokenStart == token_generator.pos - Len(parser.current_token.value)

\* the 1-based number of the line holding offset q of s
LineAt(s, q) == 1 + Cardinality({i \in 1..q : s[i] = "\n"})

\* the offset of the first character of the line holding offset q of s
LineBegin(s, q) ==
    IF \E i \in 1..q : s[i] = "\n"
    THEN CHOOSE i \in 1..q : s[i] = "\n" /\ \A j \in (i + 1)..q : s[j] # "\n"
    ELSE 0

\* the parser holds the token the generator yielded last
HoldsToken ==
    /\ ppc # "idle"
    /\ parser.current_token # NoToken
    /\ token_generator.state = "suspended"

\* C15 as stated: every token carries the 1-based number of the line it
\* starts on and, as column, the 0-based offset of its first character from
\* the start of that line; a token at the first character of a line has
\* column 0.
C15_Original ==
    HoldsToken =>
        /\ parser.current_token.line = LineAt(text, TokenStart)
        /\ parser.current_token.column = TokenStart - LineBegin(text, TokenStart)

====
